---- MODULE Spec2Model ----
(***************************************************************************)
(* Territory capture engine of app/(tabs)/index.tsx (tycoon variant):      *)
(* the location-tracking effect, the setPath updater with its loop scan,   *)
(* the classification closure and the capture ledger.                      *)
(*                                                                         *)
(* Coordinates are integers on a grid near (0, 0): one unit of latitude is *)
(* 0.001 degree and one unit of longitude 0.002 degree.  The arithmetic of *)
(* the source is carried out exactly on that grid.                         *)
(***************************************************************************)
EXTENDS Integers, Sequences, FiniteSets

VARIABLES
  path,        \* useState<Coord[]>([])               index.tsx:68
  polygons,    \* useState<Territory[]>([]): references into heap
  heap,        \* the Territory objects ever created, by reference
  cash,        \* useState(500)                       index.tsx:73
  targetZone,  \* useState<{...} | null>(null)        index.tsx:81
  runs,        \* the runs of the tracking effect     index.tsx:115-186
  jobs,        \* classification closures awaiting reverseGeocodeAsync
  now,         \* Date.now()
  storage,     \* AsyncStorage: the value stored under POLYGONS_KEY
  loadPc,      \* position of load() in the persistence effect
  dialogs,     \* the open Alerts of handleTerritoryPress, with their closures
  notice,      \* the Alert or toast buildStructure showed last
  raw,         \* what getItem(POLYGONS_KEY) of load() read at mount
  saveTimer,   \* the pending timers of the save effect, each the polygons
               \* array its closure holds
  lastWrite,   \* history: the cash at the last completed write, the restarts
  lootbox,     \* useState<{coord, amount} | null>(null)   part_000:83
  lastCollected, \* useState(Date.now())             index.tsx:74
  income,      \* AsyncStorage 'last_collected', the position of its
               \* getItem in load(), and history: the clock at the last payout
  fixCount,    \* history: fixes handled so far
  lastFix      \* history: what the newest handled fix did

engine == <<path, targetZone, runs, jobs, fixCount, lastFix>>
ledger == <<polygons, heap, cash, saveTimer>>
host == <<now, storage, lootbox, lastCollected, income, raw, lastWrite, loadPc,
          dialogs, notice>>
vars == <<path, polygons, heap, cash, targetZone, runs, jobs, now, storage,
          loadPc, dialogs, notice, raw, saveTimer, lastWrite, fixCount,
          lastFix, lootbox, lastCollected, income>>

----------------------------------------------------------------------------
(* Bounds of the model                                                     *)

MaxSelections == 1  \* search results selected in one behaviour
MaxFixes == 4       \* fixes handled in one behaviour of Spec
MaxWalk == 410      \* fixes handled in one behaviour of SpecCap
MaxLoopFixes == 7   \* fixes handled in one behaviour of SpecCapture
MaxTargetFixes == 4 \* fixes handled in one behaviour of SpecTarget
MaxLiveFixes == 4   \* fixes handled in one behaviour of SpecLive
MaxLedgerFixes == 4 \* fixes handled in one behaviour of SpecLedger
MaxPendingFixes == 7 \* fixes handled in one behaviour of SpecPending
MaxDetourFixes == 11 \* fixes handled in one behaviour of SpecReject
MaxRestarts == 1    \* restarts of the app in one behaviour of SpecRestart
MaxStartFixes == 4  \* fixes handled in one behaviour of SpecStart
MaxLootRuns == 7    \* runs of the tracking effect of part_000 in SpecLoot
MaxLootFixes == 3   \* fixes handled in one behaviour of SpecLoot
MaxEndsFixes == 1006 \* fixes handled in one behaviour of SpecEnds
GridMax == 2        \* greatest coordinate of the points getIntersection is applied to
MaxWeaveFixes == 69 \* fixes handled in one behaviour of SpecWeave
MaxIncomeClock == 120000 \* milliseconds that pass in one behaviour of SpecIncome
MaxClock == 2       \* milliseconds that pass in one behaviour of SpecClock
MaxDialogs == 2     \* Alerts of handleTerritoryPress open at one time
MaxRetargets == 2   \* search results selected in one behaviour of SpecRetarget
MaxRetargetFixes == 7 \* fixes handled in one behaviour of SpecRetarget

----------------------------------------------------------------------------
(* Coordinates                                                             *)

Pt(la, lo) == [latitude |-> la, longitude |-> lo]

\* Fixes the location service may deliver.  Four of them in a suitable
\* order close street-sized and city-sized loops; longer walks also close
\* loops of area zero.
Points == { Pt(0, 0), Pt(0, 1), Pt(1, 2), Pt(2, 0) }

\* A walk of two crossing circuits near target B.
Circuit ==
  <<Pt(1, 2), Pt(0, 0), Pt(0, 1), Pt(2, 0), Pt(0, 1), Pt(0, 0), Pt(1, 2)>>

\* A walk that closes a ring at its fourth fix, then goes twice round a
\* triangle and back across its first side: the ring its last fix closes has
\* lobes of opposite orientation and area 0.
Detour ==
  <<Pt(1, 2), Pt(0, 0), Pt(0, 1), Pt(2, 0),
    Pt(0, 0), Pt(1, 2), Pt(0, 1), Pt(0, 0), Pt(1, 2), Pt(0, 1), Pt(2, 0)>>

NoTarget == [name |-> "none"]

\* Nothing stored under 'last_collected', its getItem not yet called, no
\* payout made.
NoIncome ==
  [stored |-> <<>>, pc |-> "wait", raw |-> <<>>, paidAt |-> <<>>]

\* lootbox null and userLocation null (part_000:65, 83)
NoBox == [coord |-> "none"]
NoLoc == [latitude |-> "none"]

radius == 150

\* Search results the player can select (selectSearchResult).
Targets ==
  { [latitude |-> 0, longitude |-> 0, radius |-> radius, name |-> "A"],
    [latitude |-> 2, longitude |-> 1, radius |-> radius, name |-> "B"] }

----------------------------------------------------------------------------
(* GeoMath                                                                 *)

Abs(x) == IF x < 0 THEN -x ELSE x

Max(a, b) == IF a > b THEN a ELSE b

\* The test counting a point on the other segment's line as on either side.
getIntersectionTouching(p1, p2, p3, p4) ==
  LET d1 == (p2.latitude - p1.latitude) * (p3.longitude - p1.longitude)
            - (p2.longitude - p1.longitude) * (p3.latitude - p1.latitude)
      d2 == (p2.latitude - p1.latitude) * (p4.longitude - p1.longitude)
            - (p2.longitude - p1.longitude) * (p4.latitude - p1.latitude)
      d3 == (p4.latitude - p3.latitude) * (p1.longitude - p3.longitude)
            - (p4.longitude - p3.longitude) * (p1.latitude - p3.latitude)
      d4 == (p4.latitude - p3.latitude) * (p2.longitude - p3.longitude)
            - (p4.longitude - p3.longitude) * (p2.latitude - p3.latitude)
  IN  /\ ((d1 >= 0 /\ d2 <= 0) \/ (d1 <= 0 /\ d2 >= 0))
      /\ ((d3 >= 0 /\ d4 <= 0) \/ (d3 <= 0 /\ d4 >= 0))

getIntersection(p1, p2, p3, p4) ==
  LET d1 == (p2.latitude - p1.latitude) * (p3.longitude - p1.longitude)
            - (p2.longitude - p1.longitude) * (p3.latitude - p1.latitude)
      d2 == (p2.latitude - p1.latitude) * (p4.longitude - p1.longitude)
            - (p2.longitude - p1.longitude) * (p4.latitude - p1.latitude)
      d3 == (p4.latitude - p3.latitude) * (p1.longitude - p3.longitude)
            - (p4.longitude - p3.longitude) * (p1.latitude - p3.latitude)
      d4 == (p4.latitude - p3.latitude) * (p2.longitude - p3.longitude)
            - (p4.longitude - p3.longitude) * (p2.latitude - p3.latitude)
  IN  /\ ((d1 > 0 /\ d2 < 0) \/ (d1 < 0 /\ d2 > 0))
      /\ ((d3 > 0 /\ d4 < 0) \/ (d3 < 0 /\ d4 > 0))

RECURSIVE SumLat(_, _)
SumLat(coords, n) ==
  IF n = 0 THEN 0 ELSE SumLat(coords, n - 1) + coords[n].latitude

RECURSIVE SumLng(_, _)
SumLng(coords, n) ==
  IF n = 0 THEN 0 ELSE SumLng(coords, n - 1) + coords[n].longitude

\* getCentroid: the mean of the ring's points, kept as the two sums and the
\* count so that no division is rounded.
getCentroid(coords) ==
  [latSum |-> SumLat(coords, Len(coords)),
   lngSum |-> SumLng(coords, Len(coords)),
   n |-> Len(coords)]

\* The shoelace sum of getPolygonArea: i runs over 0..n-1, j = (i+1) % n.
RECURSIVE Shoelace(_, _)
Shoelace(coords, i) ==
  IF i = 0 THEN 0
  ELSE LET j == (i % Len(coords)) + 1
       IN  Shoelace(coords, i - 1)
           + coords[i].latitude * coords[j].longitude
           - coords[j].latitude * coords[i].longitude

\* Math.abs(area / 2) * 1.23e10 on the grid: a unit of the shoelace sum is
\* 0.001 * 0.002 square degrees, so the area in square metres is
\* |sum| / 2 * 0.000002 * 1.23e10 = |sum| * 12300, an integer.
AreaScale == 12300

getPolygonArea(coords) == Abs(Shoelace(coords, Len(coords))) * AreaScale

\* getDistance(center, targetZone) < targetZone.radius.  Near (0, 0) the
\* haversine distance is the planar one: 111.195 m per unit of latitude
\* (6371e3 * pi / 180 / 1000), whose square is UnitSq, and twice that per
\* unit of longitude.  The centroid is compared without dividing by n.
UnitSq == 12364

WithinRadius(center, tz) ==
  LET dLat == center.n * tz.latitude - center.latSum
      dLng == 2 * (center.n * tz.longitude - center.lngSum)
  IN  (dLat * dLat + dLng * dLng) * UnitSq
        < tz.radius * tz.radius * center.n * center.n

----------------------------------------------------------------------------
(* PathBuffer: the setPath updater                                         *)

CAP == 400
TAIL == 200
WINDOW == 50
MIN_AREA == 20
CITY_THRESHOLD == 20000

\* curr.slice(-200)
SliceTail(curr) ==
  IF Len(curr) <= TAIL THEN curr
  ELSE SubSeq(curr, Len(curr) - TAIL + 1, Len(curr))

\* The truncation with the length test one fix later still.
TruncateLate(curr) == IF Len(curr) > CAP + 1 THEN SliceTail(curr) ELSE curr

\* if (curr.length > 400) curr = curr.slice(-200)
Truncate(curr) == IF Len(curr) > CAP THEN SliceTail(curr) ELSE curr

\* const last = updated[updated.length - 1]
LastOf(updated) == updated[Len(updated)]

\* The start of the newest segment as the design states it: path[len-2].
PreviousOf(updated) == updated[Len(updated) - 1]

\* The indices i of the scan, shifted to sequences that start at 1: the
\* segment i is (updated[i], updated[i+1]).
ScanRange(updated) ==
  (Max(0, Len(updated) - WINDOW) + 1) .. (Len(updated) - 2)

Crossings(updated, a, b) ==
  { i \in ScanRange(updated) :
      getIntersection(a, b, updated[i], updated[i + 1]) }

\* The scan keeping the last crossing it finds.
Highest(S) == CHOOSE i \in S : \A k \in S : i >= k

\* The scan returns at the first crossing it finds.
Lowest(S) == CHOOSE i \in S : \A k \in S : i <= k

\* The loop left open: updated.slice(i) alone.
CloseLoopOpen(updated, i) == SubSeq(updated, i, Len(updated))

\* updated.slice(i) followed by loop[0]
CloseLoop(updated, i) ==
  Append(SubSeq(updated, i, Len(updated)), updated[i])

\* A threshold test that no area meets.
TooSmallNever(area) == area < 0

\* area < 20
TooSmall(area) == area < MIN_AREA

\* The rejected branch emptying the path.
RejectedPathCleared(updated, newPoint) == <<>>

\* What the updater returns on a rejected loop.
RejectedPath(updated, newPoint) == updated

\* The updater keeping the path on an accepted loop.
AcceptedPathKept(updated, newPoint) == updated

\* return [newPoint]
AcceptedPath(updated, newPoint) == <<newPoint>>

\* The updater of setPath for one fix.  seg is "last" for the segment the
\* source tests, (last, newPoint) with last = updated[length-1], and
\* "previous" for the segment (path[len-2], fix) of the design.
setPath(curr, newPoint, seg) ==
  LET updated == Append(Truncate(curr), newPoint)
      a == IF seg = "last" THEN LastOf(updated) ELSE PreviousOf(updated)
      hits == IF Len(updated) >= 4
                THEN Crossings(updated, a, newPoint) ELSE {}
  IN  IF hits = {}
        THEN [kind |-> "noloop", path |-> updated]
        ELSE LET closed == CloseLoop(updated, Lowest(hits))
                 area == getPolygonArea(closed)
             IN  IF TooSmall(area)
                   THEN [kind |-> "rejected",
                         path |-> RejectedPath(updated, newPoint)]
                   ELSE [kind |-> "accepted",
                         path |-> AcceptedPath(updated, newPoint),
                         closed |-> closed, area |-> area,
                         center |-> getCentroid(closed)]

----------------------------------------------------------------------------
(* TerritoryClassifier: the closure started by the updater                 *)

InitCash == 500
BASE == 10
TARGET_BONUS == 500
CITY_BONUS == 100
STREET_BONUS == 20

\* What reverseGeocodeAsync(center) may do: resolve with a place whose
\* fields are filled or empty, resolve with no place, or throw.
GeoResults ==
  { [kind |-> "place", district |-> "Docks", name |-> "", street |-> "Quay"],
    [kind |-> "place", district |-> "", name |-> "", street |-> ""],
    [kind |-> "none", district |-> "", name |-> "", street |-> ""],
    [kind |-> "throw", district |-> "", name |-> "", street |-> ""] }

\* a || b on strings
OrElse(a, b) == IF a # "" THEN a ELSE b

\* targetZone && getDistance(center, targetZone) < targetZone.radius
TargetHit(tz, center) == tz # NoTarget /\ WithinRadius(center, tz)

\* The test with the threshold itself on the city side.
CitySizedFrom(area) == area >= CITY_THRESHOLD

\* area > 20000
CitySized(area) == area > CITY_THRESHOLD

\* name, type and bonus after the target-hit branch
TargetClass(tz) ==
  [name |-> tz.name, type |-> "landmark", bonus |-> TARGET_BONUS]

\* name, type and bonus after the reverse-geocoding branch: the initial
\* values stay when the call throws or yields no place.
GeoClass(area, geo) ==
  IF geo.kind = "place"
    THEN IF CitySized(area)
           THEN [name |-> OrElse(geo.district, "Sector"), type |-> "city",
                 bonus |-> CITY_BONUS]
           ELSE [name |-> OrElse(geo.name, OrElse(geo.street, "Road")),
                 type |-> "street", bonus |-> STREET_BONUS]
    ELSE [name |-> "Unknown Land", type |-> "street", bonus |-> 0]

\* const newT: Territory = {...}; via and hit are history fields: how the
\* class was decided, the name of the target zone of the state if the ring
\* lay in it when it was accepted, and the number of the fix that closed it;
\* active is the name of the target zone of the state at that fix.
NewTerritory(job, class, via) ==
  [coords |-> job.closed, id |-> now, name |-> class.name,
   type |-> class.type, area |-> job.area, level |-> 1,
   building |-> "none", bonus |-> class.bonus, via |-> via,
   hit |-> job.hit, seq |-> job.seq, active |-> job.active]

\* setCash(cash + 10 + bonus), with the cash of the render the effect ran
\* in: the non-functional form of the update.
AddRewardStale(c, bonus) == InitCash + BASE + bonus

\* setCash(c => c + 10 + bonus)
AddReward(c, bonus) == c + BASE + bonus

\* setPolygons(p => [...p, newT])
AddTerritory(p, ref) == Append(p, ref)

\* The save effect re-running without its cleanup: the timer of the
\* previous render stays pending beside the new one.
SaveEffectNoCleanup(p) == Append(saveTimer, p)

\* The save effect re-runs when polygons changes: the cleanup clears the
\* timer of the previous render, setTimeout(save, 500) starts one whose
\* closure holds the polygons p of this render.
SaveEffect(p) == <<p>>

\* setPolygons and setCash at the end of the closure
Commit(t) ==
  /\ heap' = Append(heap, t)
  /\ polygons' = AddTerritory(polygons, Len(heap) + 1)
  /\ cash' = AddReward(cash, t.bonus)
  /\ saveTimer' = SaveEffect(polygons')

Territories == [i \in 1..Len(polygons) |-> heap[polygons[i]]]

----------------------------------------------------------------------------
(* Persistence and the build dialog                                        *)

FACTORY_COST == 300
UPGRADE_COST == 100

Absent == [kind |-> "absent", items |-> <<>>]

\* A territory saved by an earlier session: a street-sized ring.
Saved ==
  [coords |-> <<Pt(0, 0), Pt(1, 2), Pt(0, 1), Pt(2, 0), Pt(0, 0)>>,
   id |-> -1, name |-> "Quay", type |-> "street", area |-> AreaScale,
   level |-> 1, building |-> "none", bonus |-> STREET_BONUS,
   via |-> "place", hit |-> "", seq |-> 0, active |-> "none"]

\* Another one, saved before it.
SavedBefore == [Saved EXCEPT !.id = -2, !.name = "Mill"]

\* What AsyncStorage may hold under POLYGONS_KEY when the session starts:
\* nothing, the empty collection, or a collection saved earlier.
Snapshots ==
  { Absent,
    [kind |-> "json", items |-> <<>>],
    [kind |-> "json", items |-> <<SavedBefore, Saved>>] }

\* JSON.parse(raw): new objects, appended to the heap.
Parsed(h, items) == h \o items

\* The references of the parsed array.
ParsedRefs(h, items) == [i \in 1..Len(items) |-> Len(h) + i]

----------------------------------------------------------------------------
(* The tracking effect                                                     *)

Init ==
  /\ path = <<>>
  /\ polygons = <<>>
  /\ heap = <<>>
  /\ cash = InitCash
  /\ targetZone = NoTarget
  /\ runs = <<[tz |-> NoTarget, pc |-> "perm", cleaned |-> FALSE,
               box |-> NoBox, loc |-> NoLoc]>>
  /\ jobs = <<>>
  /\ now = 0
  /\ storage \in Snapshots
  /\ raw = storage
  /\ lootbox = NoBox
  /\ lastCollected = 0
  /\ income = NoIncome
  /\ saveTimer = <<<<>>>>
  /\ lastWrite = [done |-> FALSE, cash |-> 0, boot |-> 0, writes |-> 0]
  /\ loadPc = "getItem"
  /\ dialogs = <<>>
  /\ notice = ""
  /\ fixCount = 0
  /\ lastFix = [kind |-> "none", late |-> FALSE]

\* A subscription that delivers fixes only while no classification is
\* pending.
LiveWhenIdle(r) == runs[r].pc = "sub" /\ jobs = <<>>

Live(r) == runs[r].pc = "sub"

\* return () => { if (subscription) subscription.remove(); }
Cleanup(run) ==
  [run EXCEPT !.cleaned = TRUE,
              !.pc = IF run.pc = "sub" THEN "removed" ELSE run.pc]

\* A change of targetZone re-runs the effect: the cleanup of the current
\* run, then a new run whose closures hold the new targetZone.  box and
\* loc are the lootbox and userLocation the closures of part_000 hold;
\* index.tsx has neither.
Rerun(rs, tz) ==
  Append([rs EXCEPT ![Len(rs)] = Cleanup(rs[Len(rs)])],
         [tz |-> tz, pc |-> "perm", cleaned |-> FALSE,
          box |-> NoBox, loc |-> NoLoc])

Mounted == ~runs[Len(runs)].cleaned

\* The selections made so far: each started a run with its target.
Selections == Cardinality({r \in 1..Len(runs) : runs[r].tz # NoTarget})

\* requestForegroundPermissionsAsync resolves
PermissionAnswered(r, granted) ==
  /\ runs[r].pc = "perm"
  /\ runs' = [runs EXCEPT ![r].pc = IF granted THEN "pos" ELSE "denied"]
  /\ UNCHANGED <<path, targetZone, jobs, fixCount, lastFix, ledger, host>>

\* getCurrentPositionAsync resolves
PositionRead(r) ==
  /\ runs[r].pc = "pos"
  /\ runs' = [runs EXCEPT ![r].pc = "watch"]
  /\ UNCHANGED <<path, targetZone, jobs, fixCount, lastFix, ledger, host>>

\* watchPositionAsync resolves and the handle is assigned to subscription,
\* whether or not the cleanup of this run has already been called.
WatchResolved(r) ==
  /\ runs[r].pc = "watch"
  /\ runs' = [runs EXCEPT ![r].pc = "sub"]
  /\ UNCHANGED <<path, targetZone, jobs, fixCount, lastFix, ledger, host>>

\* selectSearchResult: setTargetZone with a fresh object, so the effect
\* re-runs even when the same place is selected again.
setTarget(t) ==
  /\ Mounted
  /\ targetZone' = t
  /\ runs' = Rerun(runs, t)
  /\ UNCHANGED <<path, jobs, fixCount, lastFix, ledger, host>>

selectSearchResult(t) ==
  /\ Selections < MaxSelections
  /\ setTarget(t)

\* The component unmounts: the cleanup of the current run, no new run.
Unmount ==
  /\ Mounted
  /\ runs' = [runs EXCEPT ![Len(runs)] = Cleanup(runs[Len(runs)])]
  /\ UNCHANGED <<path, targetZone, jobs, fixCount, lastFix, ledger, host>>

\* setTargetZone(null) in the target-hit branch: a re-render, and so a
\* re-run of the effect, only when the state changes.
ClearTarget ==
  IF targetZone = NoTarget
    THEN UNCHANGED <<targetZone, runs>>
    ELSE /\ targetZone' = NoTarget
         /\ runs' = IF Mounted THEN Rerun(runs, NoTarget) ELSE runs

\* The callback of watchPositionAsync of run r for one fix: the updater of
\* setPath and, on an accepted loop, the closure up to its first await.
\* The closure reads the targetZone of the render its effect ran in.
\* A state update of an unmounted component is dropped.
HandleFix(r, newPoint, seg) ==
  LET res == setPath(path, newPoint, seg)
      tz == runs[r].tz
  IN  /\ Live(r)
      /\ Mounted
      /\ path' = res.path
      /\ fixCount' = fixCount + 1
      /\ lastFix' = [kind |-> res.kind, late |-> runs[r].cleaned]
      /\ UNCHANGED host
      /\ IF res.kind # "accepted"
           THEN UNCHANGED <<targetZone, runs, jobs, ledger>>
           ELSE LET job == [closed |-> res.closed, area |-> res.area,
                            center |-> res.center,
                            hit |-> IF TargetHit(targetZone, res.center)
                                      THEN targetZone.name ELSE "",
                            seq |-> fixCount + 1, hung |-> FALSE,
                            active |-> targetZone.name]
                IN  IF TargetHit(tz, res.center)
                      THEN /\ Commit(NewTerritory(job, TargetClass(tz),
                                                  "target"))
                           /\ ClearTarget
                           /\ UNCHANGED jobs
                      ELSE /\ jobs' = Append(jobs, job)
                           /\ UNCHANGED <<targetZone, runs, ledger>>

\* The closure clearing the target zone in the reverse-geocode branch too.
GeocodeSettledClears(j, geo) ==
  /\ j \in 1..Len(jobs)
  /\ ~jobs[j].hung
  /\ Mounted
  /\ Commit(NewTerritory(jobs[j], GeoClass(jobs[j].area, geo), geo.kind))
  /\ jobs' = [k \in 1..(Len(jobs) - 1) |->
                IF k < j THEN jobs[k] ELSE jobs[k + 1]]
  /\ targetZone' = NoTarget
  /\ UNCHANGED <<path, runs, fixCount, lastFix, host>>

\* reverseGeocodeAsync settles for the j-th pending closure, which runs to
\* its end.
GeocodeSettled(j, geo) ==
  /\ j \in 1..Len(jobs)
  /\ ~jobs[j].hung
  /\ Mounted
  /\ Commit(NewTerritory(jobs[j], GeoClass(jobs[j].area, geo), geo.kind))
  /\ jobs' = [k \in 1..(Len(jobs) - 1) |->
                IF k < j THEN jobs[k] ELSE jobs[k + 1]]
  /\ UNCHANGED <<path, targetZone, runs, fixCount, lastFix, host>>

\* reverseGeocodeAsync never settles for the j-th pending closure: the
\* closure sets no timer, so it stays at its await.
GeocodeHangs(j) ==
  /\ j \in 1..Len(jobs)
  /\ ~jobs[j].hung
  /\ jobs' = [jobs EXCEPT ![j].hung = TRUE]
  /\ UNCHANGED <<path, targetZone, runs, fixCount, lastFix, host, ledger>>

\* A fix in the program as written.
OnFix(r, newPoint) ==
  /\ fixCount < MaxFixes
  /\ HandleFix(r, newPoint, "last")

Lifecycle ==
  \/ \E r \in 1..Len(runs), granted \in BOOLEAN : PermissionAnswered(r, granted)
  \/ \E r \in 1..Len(runs) : PositionRead(r)
  \/ \E r \in 1..Len(runs) : WatchResolved(r)
  \/ \E t \in Targets : selectSearchResult(t)
  \/ Unmount

Next ==
  \/ Lifecycle
  \/ \E r \in 1..Len(runs), p \in Points : OnFix(r, p)

Spec == Init /\ [][Next]_vars

----------------------------------------------------------------------------
(* A long walk along a meridian: no segment ever crosses another           *)

WalkFix(r) ==
  /\ fixCount < MaxWalk
  /\ HandleFix(r, Pt(fixCount, 0), "last")

NextCap ==
  \/ \E r \in 1..Len(runs), granted \in BOOLEAN : PermissionAnswered(r, granted)
  \/ \E r \in 1..Len(runs) : PositionRead(r)
  \/ \E r \in 1..Len(runs) : WatchResolved(r)
  \/ \E r \in 1..Len(runs) : WalkFix(r)

SpecCap == Init /\ [][NextCap]_vars

----------------------------------------------------------------------------
(* The engine with the newest segment taken as the design states it,       *)
(* (path[len-2], fix): one run of the effect, loops, classifications       *)

\* distanceInterval: a fix differs from the one delivered before it.
Moved(newPoint) ==
  IF path = <<>> THEN TRUE ELSE newPoint # path[Len(path)]

OnFixCrossing(r, newPoint) ==
  /\ fixCount < MaxLoopFixes
  /\ Moved(newPoint)
  /\ HandleFix(r, newPoint, "previous")

NextCapture ==
  \/ \E r \in 1..Len(runs), granted \in BOOLEAN : PermissionAnswered(r, granted)
  \/ \E r \in 1..Len(runs) : PositionRead(r)
  \/ \E r \in 1..Len(runs) : WatchResolved(r)
  \/ \E r \in 1..Len(runs), p \in Points : OnFixCrossing(r, p)
  \/ \E j \in 1..Len(jobs), geo \in GeoResults : GeocodeSettled(j, geo)

SpecCapture == Init /\ [][NextCapture]_vars

----------------------------------------------------------------------------
(* Fixes along the circuit while classifications are pending               *)

OnFixPending(r) ==
  /\ fixCount < MaxPendingFixes
  /\ HandleFix(r, Circuit[(fixCount % Len(Circuit)) + 1], "previous")

NextPending ==
  \/ \E r \in 1..Len(runs), granted \in BOOLEAN : PermissionAnswered(r, granted)
  \/ \E r \in 1..Len(runs) : PositionRead(r)
  \/ \E r \in 1..Len(runs) : WatchResolved(r)
  \/ \E r \in 1..Len(runs) : OnFixPending(r)
  \/ \E j \in 1..Len(jobs), geo \in GeoResults : GeocodeSettled(j, geo)

SpecPending == Init /\ [][NextPending]_vars

----------------------------------------------------------------------------
(* Fixes along the detour, with target selection                           *)

OnFixDetour(r) ==
  /\ fixCount < MaxDetourFixes
  /\ HandleFix(r, Detour[(fixCount % Len(Detour)) + 1], "previous")

NextReject ==
  \/ Lifecycle
  \/ \E r \in 1..Len(runs) : OnFixDetour(r)
  \/ \E j \in 1..Len(jobs), geo \in GeoResults : GeocodeSettled(j, geo)

SpecReject == Init /\ [][NextReject]_vars

----------------------------------------------------------------------------
(* The same engine with the clock read by Date.now()                       *)

\* A millisecond passes.
Tick ==
  /\ now < MaxClock
  /\ now' = now + 1
  /\ UNCHANGED <<engine, ledger, storage, lootbox, lastCollected, income,
                 raw, lastWrite, loadPc, dialogs, notice>>

NextClock ==
  \/ \E r \in 1..Len(runs), granted \in BOOLEAN : PermissionAnswered(r, granted)
  \/ \E r \in 1..Len(runs) : PositionRead(r)
  \/ \E r \in 1..Len(runs) : WatchResolved(r)
  \/ \E r \in 1..Len(runs), p \in Points : OnFixCrossing(r, p)
  \/ \E j \in 1..Len(jobs), geo \in GeoResults : GeocodeSettled(j, geo)
  \/ Tick

SpecClock == Init /\ [][NextClock]_vars

----------------------------------------------------------------------------
(* The same engine with target selection and re-runs of the effect         *)

OnFixTarget(r, newPoint) ==
  /\ fixCount < MaxTargetFixes
  /\ HandleFix(r, newPoint, "previous")

NextTarget ==
  \/ Lifecycle
  \/ \E r \in 1..Len(runs), p \in Points : OnFixTarget(r, p)
  \/ \E j \in 1..Len(jobs), geo \in GeoResults : GeocodeSettled(j, geo)

SpecTarget == Init /\ [][NextTarget]_vars

----------------------------------------------------------------------------
(* A second selection supersedes the first                                 *)

Reselect(t) ==
  /\ Selections < MaxRetargets
  /\ setTarget(t)

OnFixRetarget(r) ==
  /\ fixCount < MaxRetargetFixes
  /\ HandleFix(r, Circuit[(fixCount % Len(Circuit)) + 1], "previous")

NextRetarget ==
  \/ \E r \in 1..Len(runs) : PermissionAnswered(r, TRUE)
  \/ \E r \in 1..Len(runs) : PositionRead(r)
  \/ \E r \in 1..Len(runs) : WatchResolved(r)
  \/ \E t \in Targets : Reselect(t)
  \/ \E r \in 1..Len(runs) : OnFixRetarget(r)
  \/ \E j \in 1..Len(jobs), geo \in GeoResults : GeocodeSettled(j, geo)

SpecRetarget == Init /\ [][NextRetarget]_vars

----------------------------------------------------------------------------
(* Progress of the classifications: every step of the program that is      *)
(* enabled is eventually taken; the geocoding service answers or not       *)

OnFixLive(r, newPoint) ==
  /\ fixCount < MaxLiveFixes
  /\ HandleFix(r, newPoint, "previous")

Settles == \E j \in 1..MaxLiveFixes, geo \in GeoResults : GeocodeSettled(j, geo)

NextLive ==
  \/ \E r \in 1..Len(runs), granted \in BOOLEAN : PermissionAnswered(r, granted)
  \/ \E r \in 1..Len(runs) : PositionRead(r)
  \/ \E r \in 1..Len(runs) : WatchResolved(r)
  \/ \E r \in 1..Len(runs), p \in Points : OnFixLive(r, p)
  \/ \E j \in 1..Len(jobs) : GeocodeHangs(j)
  \/ Settles

SpecLive == Init /\ [][NextLive]_vars /\ WF_vars(Settles)

----------------------------------------------------------------------------
(* The ledger: captures, the startup load and the build dialog             *)

\* load(): AsyncStorage.getItem resolves; if (raw) setPolygons(JSON.parse(raw));
\* then getItem('last_collected') is called and reads what is stored.
LoadResolved ==
  /\ loadPc = "getItem"
  /\ Mounted
  /\ loadPc' = "done"
  /\ IF raw.kind = "json"
       THEN /\ heap' = Parsed(heap, raw.items)
            /\ polygons' = ParsedRefs(heap, raw.items)
            /\ saveTimer' = SaveEffect(polygons')
       ELSE UNCHANGED <<heap, polygons, saveTimer>>
  /\ income' = [income EXCEPT !.pc = "getItem", !.raw = income.stored]
  /\ UNCHANGED <<cash, engine, now, storage, lootbox, lastCollected,
                 raw, lastWrite, dialogs, notice>>

\* A catch that resets the ledger to nothing.
LoadFailedResets ==
  /\ loadPc = "getItem"
  /\ loadPc' = "failed"
  /\ polygons' = <<>>
  /\ cash' = 0
  /\ UNCHANGED <<heap, saveTimer, engine, now, storage, lootbox, lastCollected, income,
                 raw, lastWrite,
                 dialogs, notice>>

\* load(): AsyncStorage.getItem throws; the catch logs a warning
LoadFailed ==
  /\ loadPc = "getItem"
  /\ loadPc' = "failed"
  /\ UNCHANGED <<ledger, engine, now, storage, lootbox, lastCollected, income,
                 raw, lastWrite, dialogs, notice>>

\* handleTerritoryPress(index): an Alert opens; its buttons hold the
\* polygons and the cash of this render. Nothing in the handler keeps a
\* second press from opening a second Alert.
handleTerritoryPress(index) ==
  /\ Mounted
  /\ Len(dialogs) < MaxDialogs
  /\ index \in 1..Len(polygons)
  /\ dialogs' = Append(dialogs, [index |-> index, polygons |-> polygons,
                                  cash |-> cash])
  /\ UNCHANGED <<ledger, engine, now, storage, lootbox, lastCollected, income,
                 raw, lastWrite, loadPc, notice>>

\* The Alert d is dismissed.
Dismiss(ds, d) ==
  [k \in 1..(Len(ds) - 1) |-> IF k < d THEN ds[k] ELSE ds[k + 1]]

\* The Cancel button of Alert d
CancelDialog(d) ==
  /\ d \in 1..Len(dialogs)
  /\ dialogs' = Dismiss(dialogs, d)
  /\ UNCHANGED <<ledger, engine, now, storage, lootbox, lastCollected, income,
                 raw, lastWrite, loadPc, notice>>

\* cash < cost, with the cash of the render that opened the dialog
Insufficient(dlg, cost) == dlg.cash < cost

\* t.building !== 'none' / t.level >= 2, read from the object itself
Refused(t, type) ==
  IF type = "factory" THEN t.building # "none" ELSE t.level >= 2

\* The Alert of a refusal
Refusal(type) == IF type = "factory" THEN "Occupied" ELSE "Max Level"

\* The toast of a purchase
Toast(type) == IF type = "factory" THEN "Factory Built!" ELSE "Land Upgraded!"

\* t.type = 'factory' written for t.building = 'factory'.
BuiltAsType(t, type) ==
  IF type = "factory" THEN [t EXCEPT !.type = "factory"]
                      ELSE [t EXCEPT !.level = 2]

\* An upgrade to a third level.
BuiltThirdLevel(t, type) ==
  IF type = "factory" THEN [t EXCEPT !.building = "factory"]
                      ELSE [t EXCEPT !.level = t.level + 2]

\* t.building = 'factory' / t.level = 2, in place
Built(t, type) ==
  IF type = "factory" THEN [t EXCEPT !.building = "factory"]
                      ELSE [t EXCEPT !.level = 2]

\* setCash(c => c - cost)
Debit(c, cost) == c - cost

\* buildStructure with the debit placed before the test of the territory.
PurchaseDebitFirst(dlg, t, type, cost, c) ==
  IF Insufficient(dlg, cost)
    THEN [notice |-> "Insufficient Funds", t |-> t, cash |-> c, set |-> FALSE]
  ELSE IF Refused(t, type)
    THEN [notice |-> Refusal(type), t |-> t, cash |-> Debit(c, cost),
          set |-> FALSE]
  ELSE [notice |-> Toast(type), t |-> Built(t, type), cash |-> Debit(c, cost),
        set |-> TRUE]

\* The body of buildStructure for the territory object t and the cash c of
\* the state: what it shows, what becomes of t and of cash, and whether it
\* calls setPolygons.
Purchase(dlg, t, type, cost, c) ==
  IF Insufficient(dlg, cost)
    THEN [notice |-> "Insufficient Funds", t |-> t, cash |-> c, set |-> FALSE]
  ELSE IF Refused(t, type)
    THEN [notice |-> Refusal(type), t |-> t, cash |-> c, set |-> FALSE]
  ELSE [notice |-> Toast(type), t |-> Built(t, type), cash |-> Debit(c, cost),
        set |-> TRUE]

\* buildStructure(index, type, cost), called by a button of Alert d
buildStructure(d, type, cost) ==
  /\ d \in 1..Len(dialogs)
  /\ Mounted
  /\ LET dlg == dialogs[d]
         ref == dlg.polygons[dlg.index]
         res == Purchase(dlg, heap[ref], type, cost, cash)
     IN  /\ notice' = res.notice
         /\ heap' = [heap EXCEPT ![ref] = res.t]
         /\ cash' = res.cash
         /\ polygons' = IF res.set THEN dlg.polygons ELSE polygons
         /\ saveTimer' = IF res.set THEN SaveEffect(polygons') ELSE saveTimer
  /\ dialogs' = Dismiss(dialogs, d)
  /\ UNCHANGED <<engine, now, storage, lootbox, lastCollected, income,
                 raw, lastWrite, loadPc>>

Buttons ==
  \/ \E d \in 1..Len(dialogs) : CancelDialog(d)
  \/ \E d \in 1..Len(dialogs) : buildStructure(d, "factory", FACTORY_COST)
  \/ \E d \in 1..Len(dialogs) : buildStructure(d, "upgrade", UPGRADE_COST)

OnFixLedger(r) ==
  /\ fixCount < MaxLedgerFixes
  /\ HandleFix(r, Circuit[(fixCount % Len(Circuit)) + 1], "previous")

NextLedger ==
  \/ \E r \in 1..Len(runs), granted \in BOOLEAN : PermissionAnswered(r, granted)
  \/ \E r \in 1..Len(runs) : PositionRead(r)
  \/ \E r \in 1..Len(runs) : WatchResolved(r)
  \/ \E r \in 1..Len(runs) : OnFixLedger(r)
  \/ \E j \in 1..Len(jobs), geo \in GeoResults : GeocodeSettled(j, geo)
  \/ LoadResolved
  \/ LoadFailed
  \/ \E index \in 1..Len(polygons) : handleTerritoryPress(index)
  \/ Buttons

SpecLedger == Init /\ [][NextLedger]_vars

----------------------------------------------------------------------------
(* The build dialogs over a loaded collection                              *)

NextBuild ==
  \/ LoadResolved
  \/ LoadFailed
  \/ \E index \in 1..Len(polygons) : handleTerritoryPress(index)
  \/ Buttons

SpecBuild == Init /\ [][NextBuild]_vars

----------------------------------------------------------------------------
(* The start of a session: the startup load beside the tracking effect     *)

OnFixStart(r) ==
  /\ fixCount < MaxStartFixes
  /\ HandleFix(r, Circuit[(fixCount % Len(Circuit)) + 1], "last")

NextStart ==
  \/ Lifecycle
  \/ \E r \in 1..Len(runs) : OnFixStart(r)
  \/ LoadResolved
  \/ LoadFailed

SpecStart == Init /\ [][NextStart]_vars

----------------------------------------------------------------------------
(* The save effect and a restart of the app                                *)

\* JSON.stringify(polygons): the fields of each Territory; the history
\* fields of the session are not part of it.
Stringify(ts) ==
  [i \in 1..Len(ts) |->
     [ts[i] EXCEPT !.via = "place", !.hit = "", !.seq = 0,
                   !.active = "none"]]

\* The timer of the save effect fires: setItem(POLYGONS_KEY, ...) with the
\* polygons of the render that set it.  cash is not written.
Save ==
  \E k \in 1..Len(saveTimer) :
    /\ Mounted
    /\ storage' = [kind |-> "json",
                   items |-> Stringify([i \in 1..Len(saveTimer[k]) |->
                                          heap[saveTimer[k][i]]])]
    /\ lastWrite' = [lastWrite EXCEPT !.done = TRUE, !.cash = cash,
                                      !.writes = @ + 1]
    /\ saveTimer' = [i \in 1..(Len(saveTimer) - 1) |->
                       IF i < k THEN saveTimer[i] ELSE saveTimer[i + 1]]
    /\ income' = [income EXCEPT !.stored = <<lastCollected>>]
    /\ UNCHANGED <<polygons, heap, cash, engine, now, lootbox, lastCollected, raw, loadPc,
                   dialogs, notice>>

\* The app is closed and started again: every useState starts from its
\* initial value, the effects run as at the first mount.
Restart ==
  /\ lastWrite.boot < MaxRestarts
  /\ path' = <<>>
  /\ polygons' = <<>>
  /\ heap' = <<>>
  /\ cash' = InitCash
  /\ targetZone' = NoTarget
  /\ runs' = <<[tz |-> NoTarget, pc |-> "perm", cleaned |-> FALSE,
                box |-> NoBox, loc |-> NoLoc]>>
  /\ jobs' = <<>>
  /\ dialogs' = <<>>
  /\ notice' = ""
  /\ raw' = storage
  /\ lootbox' = NoBox
  /\ lastCollected' = now
  /\ income' = [income EXCEPT !.pc = "wait", !.raw = <<>>]
  /\ saveTimer' = SaveEffect(polygons')
  /\ loadPc' = "getItem"
  /\ lastFix' = [kind |-> "none", late |-> FALSE]
  /\ lastWrite' = [lastWrite EXCEPT !.boot = lastWrite.boot + 1]
  /\ UNCHANGED <<now, storage, fixCount>>

NextRestart ==
  \/ LoadResolved
  \/ LoadFailed
  \/ \E index \in 1..Len(polygons) : handleTerritoryPress(index)
  \/ Buttons
  \/ Save
  \/ Restart

SpecRestart == Init /\ [][NextRestart]_vars

----------------------------------------------------------------------------
(* Properties                                                              *)

\* The newest segment (path[len-2], fix) of a path of at least 4 fixes
\* properly crosses a segment of the scan window.
NewestSegmentCrosses(p) ==
  /\ Len(p) >= 4
  /\ Crossings(p, PreviousOf(p), LastOf(p)) # {}

\* C1: when the path after an append holds at least 4 fixes and its newest
\* segment properly crosses an earlier segment of the window, the append
\* reports a loop; so an append that reported no loop left no such crossing.
C1_CrossingIsDetected ==
  lastFix.kind = "noloop" => ~NewestSegmentCrosses(path)

\* C3 as claimed: the path never holds more than 400 fixes.
C3_PathWithinCap == Len(path) <= CAP

\* C3 as amended: the path never holds more than 401 fixes, the cap plus
\* the fix appended after the length test.
C3_PathWithinCapPlusOne == Len(path) <= CAP + 1

\* C3 witness: the truncation has acted, the path holds the last 200 fixes
\* and the newest one.
C3_Truncated == fixCount = CAP + 2 /\ Len(path) = TAIL + 1

\* C9: no fix is handled, and so appended to the path, by the subscription
\* of a run of the effect whose cleanup has already run.
C9_NoFixAfterCleanup == ~lastFix.late

\* C10: at no time are two subscriptions live and feeding the path.
C10_OneLiveSubscription ==
  Cardinality({r \in 1..Len(runs) : Live(r)}) <= 1

BucketClass(t) ==
  IF t.area > CITY_THRESHOLD
    THEN t.type = "city" /\ t.bonus = CITY_BONUS
    ELSE t.type = "street" /\ t.bonus = STREET_BONUS

RECURSIVE SumRewards(_, _)
SumRewards(ts, n) ==
  IF n = 0 THEN 0 ELSE SumRewards(ts, n - 1) + BASE + ts[n].bonus

IdsOf(refs, h) == [i \in 1..Len(refs) |-> h[refs[i]].id]

\* a is b with some elements left out.
RECURSIVE IsSubsequence(_, _)
IsSubsequence(a, b) ==
  IF a = <<>> THEN TRUE
  ELSE IF b = <<>> THEN FALSE
  ELSE IF Head(a) = Head(b) THEN IsSubsequence(Tail(a), Tail(b))
  ELSE IsSubsequence(a, Tail(b))

HitsOn(t) == {i \in 1..Len(heap) : heap[i].via = "target" /\ heap[i].name = t.name}

\* The selections of target t made so far: each started a run of the effect.
SelectionsOf(t) == {r \in 1..Len(runs) : runs[r].tz = t}

C13_CashNeverNegative == cash >= 0

Rejections == {"Insufficient Funds", "Occupied", "Max Level"}

\* C14: a press of a build button that ends in a rejection leaves cash, the
\* collection and every territory as they were.
C14_RejectedBuildMutatesNothing ==
  [][(dialogs' # dialogs /\ Len(dialogs') < Len(dialogs)
        /\ notice' \in Rejections)
      => ledger' = ledger]_vars

\* C14 witness: a build has been rejected after a purchase went through.
C14_Rejected == notice \in Rejections /\ cash < InitCash

Rewarded == {i \in 1..Len(heap) : heap[i].seq > 0}

\* The territory objects of the collection.
Collected == {polygons[k] : k \in 1..Len(polygons)}

ClosingFix(job) == job.closed[Len(job.closed) - 1]

ClosesSmallRing(curr, p) ==
  LET updated == Append(Truncate(curr), p)
      hits == IF Len(updated) >= 4
                THEN Crossings(updated, PreviousOf(updated), p) ELSE {}
  IN  /\ hits # {}
      /\ getPolygonArea(CloseLoop(updated, Lowest(hits))) < MIN_AREA

C20_RestartRestoresLedger ==
  [][(/\ lastWrite.boot > 0
      /\ lastWrite.done
      /\ raw = storage
      /\ loadPc = "getItem"
      /\ loadPc' = "done")
      => /\ Territories' = storage.items
         /\ cash' = lastWrite.cash]_vars

\* The startup load has failed or has found nothing persisted.
NothingLoaded ==
  loadPc = "failed" \/ (loadPc = "done" /\ raw.kind = "absent")

Core(t) == <<t.coords, t.area, t.type, t.id>>

Toasts == {"Factory Built!", "Land Upgraded!"}

\* C22: no step changes the coords, area, type or id of a territory, and
\* its level or building changes only in a step of a build or upgrade that
\* went through.
C22_CoreFieldsNeverChange ==
  [][\A i \in 1..Len(heap) :
       /\ Core(heap'[i]) = Core(heap[i])
       /\ (heap'[i].level # heap[i].level
             \/ heap'[i].building # heap[i].building)
            => (Len(dialogs') < Len(dialogs) /\ notice' \in Toasts)]_vars

\* C22 witness: a territory of the collection has been built on and upgraded.
C22_BuiltAndUpgraded ==
  \E k \in 1..Len(polygons) :
    Territories[k].building = "factory" /\ Territories[k].level = 2

----------------------------------------------------------------------------
(* The save effect beside the load and the build dialogs                   *)

NextSave ==
  \/ LoadResolved
  \/ LoadFailed
  \/ \E index \in 1..Len(polygons) : handleTerritoryPress(index)
  \/ Buttons
  \/ Save

\* The session stays alive: a pending timer fires.
SpecSave == Init /\ [][NextSave]_vars /\ WF_vars(Save)

\* C24: every change of the collection leaves exactly one timer pending,
\* which holds the changed collection; a write stores the collection as it
\* is at the write and leaves no timer pending, so the changes made while a
\* timer was pending cause one write; and a pending timer leads to a state
\* where storage holds the current collection.
C24_BurstCausesOneLatestWrite ==
  /\ [][/\ polygons' # polygons => saveTimer' = <<polygons'>>
        /\ lastWrite'.writes # lastWrite.writes
             => /\ storage' = [kind |-> "json",
                               items |-> Stringify(Territories')]
                /\ saveTimer' = <<>>]_vars
  /\ (saveTimer # <<>>)
       ~> (/\ saveTimer = <<>>
           /\ storage = [kind |-> "json", items |-> Stringify(Territories)])

\* C24 witness: the load, a build and an upgrade happened while a timer was
\* pending, and the one write stored the collection after the last of them.
C24_BurstWrittenOnce ==
  /\ lastWrite.writes = 1
  /\ saveTimer = <<>>
  /\ storage = [kind |-> "json", items |-> Stringify(Territories)]
  /\ \E k \in 1..Len(polygons) :
       Territories[k].building = "factory" /\ Territories[k].level = 2

----------------------------------------------------------------------------
(* The lootbox of the lootbox variant (unnamed/part_000)                   *)

PICKUP_RANGE == 20
SPAWN_STEP == 50

\* Math.floor(Math.random() * 50) + 10: the least and the greatest amount
Amounts == {10, 59}

\* Where the player of the lootbox walks are: two neighbouring grid points.
LootPoints == { Pt(0, 0), Pt(0, 1) }

\* getDistance squared, in square metres on the grid
getDistanceSq(p1, p2) ==
  LET dLat == p2.latitude - p1.latitude
      dLng == 2 * (p2.longitude - p1.longitude)
  IN  (dLat * dLat + dLng * dLng) * UnitSq

\* The effect of part_000 depends on [targetZone, lootbox, userLocation]:
\* a change of any of them is the cleanup of the current run and a new run
\* whose closures hold the new values.
LootRerun(rs, tz, box, loc) ==
  Append([rs EXCEPT ![Len(rs)] = Cleanup(rs[Len(rs)])],
         [tz |-> tz, pc |-> "perm", cleaned |-> FALSE,
          box |-> box, loc |-> loc])

\* getCurrentPositionAsync resolves in part_000: setUserLocation with a
\* fresh object, which re-runs the effect, then watchPositionAsync is
\* called.
PositionReadLoot(r, loc) ==
  /\ runs[r].pc = "pos"
  /\ Len(runs) < MaxLootRuns
  /\ runs' = IF Mounted
               THEN LootRerun([runs EXCEPT ![r].pc = "watch"], targetZone,
                              lootbox, loc)
               ELSE [runs EXCEPT ![r].pc = "watch"]
  /\ UNCHANGED <<path, targetZone, jobs, fixCount, lastFix, ledger, host>>

\* The callback of watchPositionAsync of part_000 for one fix.  roll is
\* Math.random() < 0.05.  On the grid every step between two points is
\* longer than 50 m, so distanceTraveledRef is 0 before every callback and
\* exceeds 50 exactly when the fix differs from the closure's userLocation.
\* The pickup test reads the lootbox of the closure.
LootFix(r, newPoint, roll, amount) ==
  LET run == runs[r]
      res == setPath(path, newPoint, "last")
      spawned == /\ run.loc # NoLoc
                 /\ getDistanceSq(run.loc, newPoint) > SPAWN_STEP * SPAWN_STEP
                 /\ roll
      picked == /\ run.box # NoBox
                /\ getDistanceSq(newPoint, run.box.coord)
                     < PICKUP_RANGE * PICKUP_RANGE
      box == IF picked THEN NoBox
             ELSE IF spawned THEN [coord |-> newPoint, amount |-> amount]
             ELSE lootbox
      paid == IF picked THEN cash + run.box.amount ELSE cash
      hit == res.kind = "accepted" /\ TargetHit(run.tz, res.center)
      job == [closed |-> res.closed, area |-> res.area,
              center |-> res.center,
              hit |-> IF TargetHit(targetZone, res.center)
                        THEN targetZone.name ELSE "",
              seq |-> fixCount + 1, hung |-> FALSE,
              active |-> targetZone.name]
      tz == IF hit THEN NoTarget ELSE targetZone
  IN  /\ Live(r)
      /\ Mounted
      /\ lootbox' = box
      /\ path' = res.path
      /\ fixCount' = fixCount + 1
      /\ lastFix' = [kind |-> res.kind, late |-> run.cleaned]
      /\ targetZone' = tz
      /\ runs' = LootRerun(runs, tz, box, newPoint)
      /\ jobs' = IF res.kind = "accepted" /\ ~hit
                   THEN Append(jobs, job) ELSE jobs
      /\ IF hit
           THEN LET t == NewTerritory(job, TargetClass(run.tz), "target")
                IN  /\ heap' = Append(heap, t)
                    /\ polygons' = AddTerritory(polygons, Len(heap) + 1)
                    /\ cash' = AddReward(paid, t.bonus)
                    /\ saveTimer' = SaveEffect(polygons')
           ELSE /\ cash' = paid
                /\ UNCHANGED <<polygons, heap, saveTimer>>
      /\ UNCHANGED <<now, storage, lastCollected, income, raw, lastWrite, loadPc,
                     dialogs, notice>>

OnFixLoot(r) ==
  /\ fixCount < MaxLootFixes
  /\ Len(runs) < MaxLootRuns
  /\ \E newPoint \in LootPoints, roll \in BOOLEAN, amount \in Amounts :
       LootFix(r, newPoint, roll, amount)

NextLoot ==
  \/ \E r \in 1..Len(runs) : PermissionAnswered(r, TRUE)
  \/ \E r \in 1..Len(runs) : PositionReadLoot(r, Pt(0, 0))
  \/ \E r \in 1..Len(runs) : WatchResolved(r)
  \/ \E r \in 1..Len(runs) : OnFixLoot(r)

SpecLoot == Init /\ [][NextLoot]_vars

\* C25: a pickup's reward is added to cash once: cash grows only while a
\* pickup is live, and the step that adds the reward clears the pickup.
C25_PickupCollectedOnce ==
  [][cash' # cash => (lootbox # NoBox /\ lootbox' = NoBox)]_vars

----------------------------------------------------------------------------
(* The classification of rings of areas round the city threshold           *)

\* Areas getPolygonArea returns for rings off the grid: the least accepted
\* one, the threshold and its neighbours, and larger ones.
Areas == {20, 12300, 19999, 20000, 20001, 24600, 40000, 100000}

\* The state after the fourth fix of the detour closed an accepted ring
\* outside any target: the closure waits for reverseGeocodeAsync.
InitClassify ==
  LET res == setPath(SubSeq(Detour, 1, 3), Detour[4], "previous")
  IN  /\ res.kind = "accepted"
      /\ path = res.path
      /\ polygons = <<>>
      /\ heap = <<>>
      /\ cash = InitCash
      /\ targetZone = NoTarget
      /\ runs = <<[tz |-> NoTarget, pc |-> "sub", cleaned |-> FALSE,
                   box |-> NoBox, loc |-> NoLoc]>>
      /\ \E area \in Areas :
           jobs = <<[closed |-> res.closed, area |-> area,
                     center |-> res.center, hit |-> "", seq |-> 4,
                     hung |-> FALSE, active |-> "none"]>>
      /\ now = 0
      /\ storage \in Snapshots
      /\ raw = storage
      /\ lootbox = NoBox
      /\ lastCollected = 0
      /\ income = NoIncome
      /\ saveTimer = <<<<>>>>
      /\ lastWrite = [done |-> FALSE, cash |-> 0, boot |-> 0, writes |-> 0]
      /\ loadPc = "getItem"
      /\ dialogs = <<>>
      /\ notice = ""
      /\ fixCount = 4
      /\ lastFix = [kind |-> "accepted", late |-> FALSE]

NextClassify ==
  \/ \E j \in 1..Len(jobs), geo \in GeoResults : GeocodeSettled(j, geo)
  \/ \E t \in Targets : selectSearchResult(t)
  \/ LoadResolved
  \/ LoadFailed

SpecClassify == InitClassify /\ [][NextClassify]_vars

----------------------------------------------------------------------------
(* A walk on which the path is cut at a fix that closes no loop, at one    *)
(* that closes an accepted ring and at one that closes a rejected ring     *)

\* Down the meridian of longitude 5 for 599 fixes (the path is cut at the
\* 402nd), the first four fixes of the detour (cut at the fourth, which
\* closes the accepted ring), up and down the meridian of longitude 0 for
\* 394 fixes, then the rest of the detour again and again (cut at fix 1004,
\* which closes the ring of area 0).
EndsRoute(k) ==
  IF k <= 599 THEN Pt(1000 - k, 5)
  ELSE IF k <= 603 THEN Detour[k - 599]
  ELSE IF k <= 800 THEN Pt(k - 601, 0)
  ELSE IF k <= 997 THEN Pt(999 - k, 0)
  ELSE Detour[5 + ((k - 998) % 7)]

EndsFix(r) ==
  /\ fixCount < MaxEndsFixes
  /\ HandleFix(r, EndsRoute(fixCount + 1), "previous")

NextEnds ==
  \/ \E r \in 1..Len(runs), granted \in BOOLEAN : PermissionAnswered(r, granted)
  \/ \E r \in 1..Len(runs) : PositionRead(r)
  \/ \E r \in 1..Len(runs) : WatchResolved(r)
  \/ \E r \in 1..Len(runs) : EndsFix(r)
  \/ \E j \in 1..Len(jobs), geo \in GeoResults : GeocodeSettled(j, geo)

SpecEnds == Init /\ [][NextEnds]_vars

----------------------------------------------------------------------------
(* getIntersection on every four points of a grid                          *)

Grid == { Pt(la, lo) : la \in 0..GridMax, lo \in 0..GridMax }

\* Four fixes in the path, nothing else done yet.
InitCross ==
  /\ path \in [1..4 -> Grid]
  /\ polygons = <<>>
  /\ heap = <<>>
  /\ cash = InitCash
  /\ targetZone = NoTarget
  /\ runs = <<[tz |-> NoTarget, pc |-> "sub", cleaned |-> FALSE,
               box |-> NoBox, loc |-> NoLoc]>>
  /\ jobs = <<>>
  /\ now = 0
  /\ storage = Absent
  /\ raw = storage
  /\ lootbox = NoBox
  /\ lastCollected = 0
  /\ income = NoIncome
  /\ saveTimer = <<<<>>>>
  /\ lastWrite = [done |-> FALSE, cash |-> 0, boot |-> 0, writes |-> 0]
  /\ loadPc = "getItem"
  /\ dialogs = <<>>
  /\ notice = ""
  /\ fixCount = 4
  /\ lastFix = [kind |-> "none", late |-> FALSE]

\* getIntersection(path[0], path[1], path[2], path[3]); lastFix records
\* what it returned.
Intersect ==
  /\ lastFix.kind = "none"
  /\ lastFix' = [kind |-> IF getIntersection(path[1], path[2], path[3],
                                             path[4])
                            THEN "crosses" ELSE "apart",
                 late |-> FALSE]
  /\ UNCHANGED <<path, targetZone, runs, jobs, fixCount, ledger, host>>

SpecCross == InitCross /\ [][Intersect]_vars

\* u x v
Cross(u1, u2, v1, v2) == u1 * v2 - u2 * v1

\* The segments meet in one point that is inside both: the solution of
\* p1 + s (p2 - p1) = p3 + t (p4 - p3) has 0 < s < 1 and 0 < t < 1.
MeetInside(p1, p2, p3, p4) ==
  LET det == Cross(p2.latitude - p1.latitude, p2.longitude - p1.longitude,
                   p4.latitude - p3.latitude, p4.longitude - p3.longitude)
      s == Cross(p3.latitude - p1.latitude, p3.longitude - p1.longitude,
                 p4.latitude - p3.latitude, p4.longitude - p3.longitude)
      t == Cross(p3.latitude - p1.latitude, p3.longitude - p1.longitude,
                 p2.latitude - p1.latitude, p2.longitude - p1.longitude)
      Inside(n) == IF det > 0 THEN 0 < n /\ n < det ELSE det < n /\ n < 0
  IN  det # 0 /\ Inside(s) /\ Inside(t)

\* p lies on the segment from a to b, ends included.
OnSegment(p, a, b) ==
  /\ Cross(b.latitude - a.latitude, b.longitude - a.longitude,
           p.latitude - a.latitude, p.longitude - a.longitude) = 0
  /\ (p.latitude - a.latitude) * (p.latitude - b.latitude) <= 0
  /\ (p.longitude - a.longitude) * (p.longitude - b.longitude) <= 0

\* The segments touch, share an end, are parallel or lie on one line.
Degenerate(p1, p2, p3, p4) ==
  \/ OnSegment(p1, p3, p4) \/ OnSegment(p2, p3, p4)
  \/ OnSegment(p3, p1, p2) \/ OnSegment(p4, p1, p2)
  \/ Cross(p2.latitude - p1.latitude, p2.longitude - p1.longitude,
           p4.latitude - p3.latitude, p4.longitude - p3.longitude) = 0

\* C28: getIntersection returns true exactly for two segments that cross
\* properly, and false for a segment and itself and for segments that
\* touch, share an endpoint, are parallel or are collinear.
C28_TrueIffProperCrossing ==
  lastFix.kind \in {"crosses", "apart"} =>
    /\ (lastFix.kind = "crosses")
         <=> MeetInside(path[1], path[2], path[3], path[4])
    /\ Degenerate(path[1], path[2], path[3], path[4])
         => lastFix.kind = "apart"

\* C28 witness: the diagonals (0,0)-(2,2) and (0,2)-(2,0) were found to
\* cross.
C28_DiagonalsCross ==
  /\ path = <<Pt(0, 0), Pt(2, 2), Pt(0, 2), Pt(2, 0)>>
  /\ lastFix.kind = "crosses"

----------------------------------------------------------------------------
(* A walk that crosses a segment older than the scan window, then two      *)
(* segments inside it with one step                                        *)

\* (0,0)-(0,4), up and down the line of longitude 4 for 59 fixes, across
\* the first segment with fix 63, then a zigzag whose two long sides fix 69
\* crosses, and straight on.
WeaveRoute(k) ==
  IF k = 1 THEN Pt(0, 0)
  ELSE IF k <= 32 THEN Pt(k - 2, 4)
  ELSE IF k <= 61 THEN Pt(62 - k, 4)
  ELSE IF k = 62 THEN Pt(1, 2)
  ELSE IF k = 63 THEN Pt(-1, 2)
  ELSE IF k = 64 THEN Pt(-2, 10)
  ELSE IF k = 65 THEN Pt(-6, 10)
  ELSE IF k = 66 THEN Pt(-6, 12)
  ELSE IF k = 67 THEN Pt(-2, 12)
  ELSE IF k = 68 THEN Pt(-4, 13)
  ELSE Pt(-4, 78 - k)

WeaveFix(r) ==
  /\ fixCount < MaxWeaveFixes
  /\ HandleFix(r, WeaveRoute(fixCount + 1), "previous")

NextWeave ==
  \/ \E r \in 1..Len(runs), granted \in BOOLEAN : PermissionAnswered(r, granted)
  \/ \E r \in 1..Len(runs) : PositionRead(r)
  \/ \E r \in 1..Len(runs) : WatchResolved(r)
  \/ \E r \in 1..Len(runs) : WeaveFix(r)
  \/ \E j \in 1..Len(jobs), geo \in GeoResults : GeocodeSettled(j, geo)

SpecWeave == Init /\ [][NextWeave]_vars

\* The segments of p the newest segment (p[n-1], p[n]) crosses, counted
\* from 1, and those of them inside the window of the last 50 fixes.
CrossedBy(p) ==
  { i \in 1..(Len(p) - 2) :
      getIntersection(p[Len(p) - 1], p[Len(p)], p[i], p[i + 1]) }

CrossedInWindow(p) == { i \in CrossedBy(p) : i - 1 >= Len(p) - 50 }

----------------------------------------------------------------------------
\* What the change of the Territory object i costs: a factory or an upgrade.
CostOf(i) ==
  IF heap'[i].building # heap[i].building THEN 300 ELSE 100

----------------------------------------------------------------------------
\* C31: the level of a territory is 1 or 2, never goes down and goes up only
\* in the step of an upgrade that went through; its building is 'none' or
\* 'factory', becomes 'factory' only in the step of a build that went
\* through, and stays 'factory'.
C31_LevelAndBuildingOnlyAdvance ==
  [][/\ \A i \in 1..Len(heap') :
          heap'[i].level \in {1, 2} /\ heap'[i].building \in {"none", "factory"}
     /\ \A i \in 1..Len(heap) :
          i <= Len(heap')
            => /\ heap'[i].level >= heap[i].level
               /\ heap'[i].level # heap[i].level
                    => /\ notice' = "Land Upgraded!"
                       /\ Len(dialogs') < Len(dialogs)
                       /\ cash' = cash - 100
               /\ heap[i].building = "factory" => heap'[i].building = "factory"
               /\ heap'[i].building # heap[i].building
                    => /\ notice' = "Factory Built!"
                       /\ Len(dialogs') < Len(dialogs)
                       /\ cash' = cash - 300]_vars

\* C31 witness: a territory with a factory and level 2 was refused another
\* upgrade.
C31_SecondUpgradeRefused ==
  /\ notice = "Max Level"
  /\ \E i \in 1..Len(heap) : heap[i].building = "factory" /\ heap[i].level = 2

----------------------------------------------------------------------------
----------------------------------------------------------------------------
(* Income collection                                                       *)

MINUTE == 60000
INCOME_BASE == 10
CITY_INCOME == 5
INCOME_CAP == 5000

Min(a, b) == IF a < b THEN a ELSE b

\* load(): getItem('last_collected') resolves;
\* if (time) setLastCollected(parseInt(time)).  The stored string is the
\* decimal form of an integer, which parseInt reads back as that integer.
\* The save effect re-runs when the state changes.
TimeLoaded ==
  /\ income.pc = "getItem"
  /\ Mounted
  /\ income' = [income EXCEPT !.pc = "done"]
  /\ IF income.raw # <<>> /\ income.raw # <<lastCollected>>
       THEN /\ lastCollected' = income.raw[1]
            /\ saveTimer' = SaveEffect(polygons)
       ELSE UNCHANGED <<lastCollected, saveTimer>>
  /\ UNCHANGED <<polygons, heap, cash, engine, now, storage, lootbox, raw,
                 lastWrite, loadPc, dialogs, notice>>

\* setLastCollected(now)
Paid(t) == t

\* collectIncome, with the lastCollected and polygons of the current render
collectIncome ==
  LET elapsed == now - lastCollected
      factories == Cardinality({ i \in 1..Len(polygons) :
                                   Territories[i].building = "factory" })
      cities == Cardinality({ i \in 1..Len(polygons) :
                                Territories[i].type = "city" })
      incomePerFactory == INCOME_BASE + cities * CITY_INCOME
      totalIncome == (factories * incomePerFactory * elapsed) \div MINUTE
      payout == Min(totalIncome, factories * INCOME_CAP)
  IN  /\ Mounted
      /\ IF elapsed < MINUTE
           THEN /\ notice' = "Chill!"
                /\ UNCHANGED <<cash, lastCollected, income, saveTimer>>
           ELSE IF factories = 0
             THEN /\ notice' = "No Industry"
                  /\ UNCHANGED <<cash, lastCollected, income, saveTimer>>
             ELSE /\ notice' = "PAYDAY"
                  /\ cash' = cash + payout
                  /\ lastCollected' = Paid(now)
                  /\ income' = [income EXCEPT !.paidAt = <<now>>]
                  /\ saveTimer' = IF lastCollected' # lastCollected
                                    THEN SaveEffect(polygons) ELSE saveTimer
      /\ UNCHANGED <<polygons, heap, engine, now, storage, lootbox, raw,
                     lastWrite, loadPc, dialogs>>

\* The clock moves on by half a minute or a minute; by then the storage
\* reads have settled and the save timer of 500 ms has fired.
IncomeTick(d) ==
  /\ now + d <= MaxIncomeClock
  /\ loadPc # "getItem"
  /\ income.pc # "getItem"
  /\ saveTimer = <<>>
  /\ now' = now + d
  /\ UNCHANGED <<engine, ledger, storage, lootbox, lastCollected, income,
                 raw, lastWrite, loadPc, dialogs, notice>>

NextIncome ==
  \/ LoadResolved
  \/ TimeLoaded
  \/ \E index \in 1..Len(polygons) :
       dialogs = <<>> /\ handleTerritoryPress(index)
  \/ \E d \in 1..Len(dialogs) : buildStructure(d, "factory", FACTORY_COST)
  \/ Save
  \/ Restart
  \/ collectIncome
  \/ \E d \in {MINUTE \div 2, MINUTE} : IncomeTick(d)

SpecIncome == Init /\ [][NextIncome]_vars

\* The territories with a factory, as collectIncome counts them.
C33_Factories ==
  Cardinality({ i \in 1..Len(polygons) : Territories[i].building = "factory" })

\* C33, first half: a press of collectIncome with less than a minute passed
\* since lastCollected, or with no factory, changes neither cash nor
\* lastCollected.
C33_RefusedPressChangesNothing ==
  [][(collectIncome /\ (now - lastCollected < 60000 \/ C33_Factories = 0))
       => (cash' = cash /\ lastCollected' = lastCollected)]_vars

\* C33: collectIncome pays only after a minute since lastCollected and with
\* a factory, so that any two payouts are at least one minute of the clock
\* apart, whatever the sequence of presses.
C33_PayoutsAMinuteApart ==
  [][/\ (collectIncome /\ cash' # cash)
          => (now - lastCollected >= 60000 /\ C33_Factories > 0)
     /\ (collectIncome /\ cash' # cash /\ income.paidAt # <<>>)
          => now - income.paidAt[1] >= 60000]_vars

====
